---- MODULE Spec2Model ----
(***************************************************************************)
(* The two project modals of the repository and what they send.            *)
(*                                                                         *)
(*   variant "rhf" : src/unnamed/part_000 (react-hook-form + zod +         *)
(*                   react-query: create and edit)                         *)
(*   variant "tsx" : src/src/components/projects/ProjectModal.tsx          *)
(*                   (useState form, create only)                          *)
(*                                                                         *)
(* One behaviour is the life of one mounted modal.  Every step is one      *)
(* event-loop task: a user event with the handler it runs, or the          *)
(* settling of a request with the continuations it runs.  The variable     *)
(* `last` holds what the latest task emitted (mutation requests, toasts,   *)
(* caller callbacks): it is the observable output of the handlers.         *)
(***************************************************************************)
EXTENDS Integers, Sequences, FiniteSets, TLC

\* ------------------------------------------------------------------ values

\* JavaScript's undefined and null, as values distinct from every string
\* the program handles.
Undefined == "<undefined>"
Null == "<null>"

\* An optional non-string value (boolean, array): absent or present.
None == <<>>
Some(v) == <<v>>

\* `new Date()`: the current time.
Now == <<"Date", "now">>
\* An Invalid Date object (new Date of an unparseable string).
InvalidDate == <<"Date", "NaN">>
\* new Date(s) for a date string s.
NewDate(s) == IF s \in {"2024-05-01", "2024-06-30"} THEN <<"Date", s>> ELSE InvalidDate
\* x instanceof Date with a valid time, as z.date() requires.
IsValidDate(d) == d # InvalidDate

\* JavaScript truthiness of a string-or-undefined value.
Truthy(v) == v \notin {Undefined, Null, ""}

\* a || b on string-or-undefined values.
Or(a, b) == IF Truthy(a) THEN a ELSE b

\* String.prototype.trim on the names the model types.
Trim(s) == IF s \in {" ", "  "} THEN "" ELSE s

\* The elements of a sequence.
Range(s) == {s[i] : i \in 1..Len(s)}

\* Array.prototype.filter(v => v !== id).
RECURSIVE Without(_, _)
Without(s, id) ==
  IF s = <<>> THEN <<>>
  ELSE IF Head(s) = id THEN Without(Tail(s), id)
       ELSE <<Head(s)>> \o Without(Tail(s), id)

\* ------------------------------------------------------------------ bounds

\* How many team members the backend lists in the life-cycle specification.
NumMembers == 1
\* How many clicks on the team-member control SpecTeam follows.
MaxClicks == 4

\* ------------------------------------------------------------------ backend

Variants == {"rhf", "tsx"}
Resources == {"clients", "teamMembers", "templates"}

\* GET /clients, GET /team-members, GET /templates as the backend answers
\* them when it answers.
AllMembers ==
  << [_id |-> Undefined, id |-> "A", name |-> "Ann"],
     [_id |-> Undefined, id |-> "B", name |-> "Bob"],
     [_id |-> Undefined, id |-> "C", name |-> "Cy"] >>

BackendData(r) ==
  CASE r = "clients" -> << [_id |-> "c1", id |-> "c1", name |-> "Acme"] >>
    [] r = "teamMembers" -> SubSeq(AllMembers, 1, NumMembers)
    [] r = "templates" -> << [_id |-> "t1", id |-> Undefined, name |-> "Tpl"] >>

\* What POST /projects answers on success: the created project, identified
\* by _id, by id, or by both.
CreateResponses ==
  { [_id |-> "p9", id |-> Undefined],
    [_id |-> Undefined, id |-> "p9"],
    [_id |-> "p9", id |-> "p9"] }

\* A failed mutation: error.response.data.message, when the backend sent one.
ErrorMessages == {Undefined, "Name already taken"}

\* ------------------------------------------------------------------ props

\* A Project as the caller may supply it (interface Project): an absent
\* string field is Undefined, an absent boolean or array is None.
Proj(id, mid, assignee) ==
  [ id |-> id, _id |-> mid, name |-> "Old", description |-> Undefined,
    clientId |-> "c1", status |-> Undefined, dueDate |-> Undefined,
    startDate |-> Undefined, assigneeId |-> assignee, teamMemberIds |-> None,
    repeating |-> None, isRecurring |-> None, templateId |-> Undefined ]

\* The project props of the life-cycle specification: none, a record
\* identified by id (with an assignee), one identified by _id, one with no
\* identifier.
MainProjects ==
  { None,
    Some(Proj("p1", Undefined, "A")),
    Some(Proj(Undefined, "p2", Undefined)),
    Some(Proj(Undefined, Undefined, Undefined)) }

\* The project records SpecDefaults draws from: every field absent, empty
\* or set.
AllProjects ==
  { [ id |-> "p1", _id |-> Undefined, name |-> n, description |-> d,
      clientId |-> c, status |-> st, dueDate |-> due, startDate |-> start,
      assigneeId |-> a, teamMemberIds |-> tm, repeating |-> rep,
      isRecurring |-> rec, templateId |-> tp ] :
      n \in {"", "Old"}, d \in {Undefined, "about"}, c \in {"", "c1"},
      st \in {Undefined, "In Progress"}, due \in {Undefined, "2024-06-30"},
      start \in {Undefined, "2024-05-01", "soon"},
      a \in {Undefined, "", "Z"},
      tm \in {None, Some(<<>>), Some(<<"A", "B">>)},
      rep \in {None, Some(FALSE), Some(TRUE)},
      rec \in {None, Some(FALSE), Some(TRUE)},
      tp \in {Undefined, "t1"} }

\* a || b || c on optional booleans.
TruthyB(o) == o # None /\ o[1]

\* The create-form defaults.
defaultValues ==
  [ name |-> "", description |-> "", clientId |-> "", assigneeId |-> "none",
    teamMemberIds |-> <<>>, isRecurring |-> FALSE, startDate |-> Now,
    templateId |-> "", status |-> "Not Started" ]

\* The override branch of getDefaultValues.
fromProject(p) ==
  [ name |-> Or(p.name, defaultValues.name),
    description |-> Or(p.description, defaultValues.description),
    clientId |-> Or(p.clientId, defaultValues.clientId),
    assigneeId |-> Or(p.assigneeId, "none"),
    teamMemberIds |-> IF p.teamMemberIds # None THEN p.teamMemberIds[1] ELSE <<>>,
    isRecurring |-> IF TruthyB(p.repeating) THEN TRUE
                    ELSE IF TruthyB(p.isRecurring) THEN TRUE
                    ELSE defaultValues.isRecurring,
    startDate |-> IF Truthy(p.startDate) THEN NewDate(p.startDate)
                  ELSE IF Truthy(p.dueDate) THEN NewDate(p.dueDate)
                  ELSE defaultValues.startDate,
    templateId |-> Or(p.templateId, defaultValues.templateId),
    status |-> Or(p.status, defaultValues.status) ]

\* getDefaultValues that overrides whenever a project is supplied.
getDefaultValuesAnyProject(proj, editing) ==
  IF proj # None THEN fromProject(proj[1]) ELSE defaultValues

\* getDefaultValues: the initial values of the rhf form.
getDefaultValues(proj, editing) ==
  IF proj # None /\ editing THEN fromProject(proj[1]) ELSE defaultValues

\* useState<CreateProjectFormData>: the initial values of the tsx form
\* (frequency is not set; dueDate is today).
tsxInitialForm ==
  [ name |-> "", description |-> "", clientId |-> "", assigneeId |-> "",
    teamMemberIds |-> <<>>, repeating |-> FALSE, dueDate |-> "today",
    frequency |-> Undefined ]

\* ------------------------------------------------------------------ state

VARIABLES
  variant,     \* which modal is mounted
  project,     \* prop project (None: not supplied)
  isEditing,   \* prop isEditing
  onCreated,   \* prop onCreated is supplied
  onUpdated,   \* prop onUpdated is supplied
  q,           \* per resource: the read fetch (status, GETs issued, outcome)
  refData,     \* per resource: the list the component renders
  loading,     \* tsx: useState loading
  form,        \* the form values
  mutation,    \* rhf: status of createMutation and updateMutation
  submitting,  \* tsx: useState submitting
  last,        \* what the latest task did and emitted
  picked,      \* SpecTeam: the clicks made on the team-member control
  closed,      \* the caller has been told the modal is done and unmounts it
  inflight,    \* create/update requests sent and not yet answered
  link,        \* SpecPagination: the rendered link and its last click
  token,       \* SpecApi: localStorage 'token'
  wire         \* SpecApi: the requests the client has sent, as sent

vars == << variant, project, isEditing, onCreated, onUpdated, q, refData,
           loading, form, mutation, submitting, last, picked, closed, inflight,
           link, token, wire >>

\* The variables of the specifications of the other components.
aside == << picked, link, token, wire >>

props == << variant, project, isEditing, onCreated, onUpdated >>

\* No pagination link rendered.
LinkAtRest == link = <<>>

\* Nothing stored, nothing sent.
ApiAtRest == token = Null /\ wire = <<>>

\* The caller's handlers through which it takes the modal down: onClose,
\* and the onCreated / onUpdated it supplied.
takesDown(callbacks) == callbacks # <<>>

\* What a task was given and emitted: the response it handled (if any), the
\* fields reported invalid to the user, the mutation requests sent, the
\* toasts shown and the caller callbacks invoked, in order.
Emit(op, input, invalid, requests, toasts, callbacks) ==
  [ op |-> op, input |-> input, invalid |-> invalid, requests |-> requests,
    toasts |-> toasts, callbacks |-> callbacks ]

Quiet(op) == Emit(op, Undefined, {}, <<>>, <<>>, <<>>)

\* The resources each variant fetches on mount.
Fetched(v) == IF v = "rhf" THEN {"clients", "teamMembers", "templates"}
              ELSE {"clients", "teamMembers"}

\* The state once the modal has mounted and its mount effects have run: the
\* read fetches are issued (one GET each), the form holds its initial values.
\* The caller's props are drawn from the given sets.
InitModal(variants, projects, callbacks) ==
  /\ variant \in variants
  /\ IF variant = "rhf"
     THEN /\ project \in projects
          /\ isEditing \in BOOLEAN
          /\ onCreated \in callbacks
          /\ onUpdated \in callbacks
     ELSE /\ project = None
          /\ isEditing = FALSE
          /\ onCreated = FALSE
          /\ onUpdated = FALSE
  /\ q = [ r \in Resources |->
             IF r \in Fetched(variant)
             THEN [status |-> "loading", gets |-> 1, http |-> "none"]
             ELSE [status |-> "idle", gets |-> 0, http |-> "none"] ]
  /\ refData = [r \in Resources |-> <<>>]
  /\ loading = (variant = "tsx")
  /\ form = IF variant = "rhf" THEN getDefaultValues(project, isEditing)
            ELSE tsxInitialForm
  /\ mutation = [create |-> "idle", update |-> "idle"]
  /\ submitting = FALSE
  /\ last = Quiet("mount")
  /\ picked = <<>>
  /\ closed = FALSE
  /\ inflight = 0
  /\ LinkAtRest
  /\ ApiAtRest

Init == InitModal(Variants, MainProjects, BOOLEAN)

\* ------------------------------------------------------------------ read fetches

\* retry: 1 of the three useQuery calls (and of the QueryClient defaults).
Retry == 1

\* api.get of a resource, as the outcome of one GET.
ApiGet(r, ok) == [rejected |-> ~ok, data |-> IF ok THEN BackendData(r) ELSE Null]

\* The queryFn of the rhf queries: try { return response.data || [] }
\* catch { console.error; return [] }.
queryFn(r, ok) ==
  LET response == ApiGet(r, ok) IN
  IF response.rejected THEN [threw |-> FALSE, data |-> <<>>]
  ELSE [threw |-> FALSE, data |-> response.data]

\* useQuery: one run of the queryFn settles.  A queryFn that threw is run
\* again while fewer than `retry` failures have been counted; the list
\* rendered is data (default []), made an array.
QuerySettle(r, ok) ==
  /\ variant = "rhf"
  /\ q[r].status = "loading"
  /\ LET res == queryFn(r, ok)
         failureCount == q[r].gets - 1
     IN IF res.threw /\ failureCount < Retry
        THEN /\ q' = [q EXCEPT ![r].gets = @ + 1, ![r].http = "error"]
             /\ UNCHANGED refData
        ELSE /\ q' = [q EXCEPT ![r].status = IF res.threw THEN "error" ELSE "success",
                               ![r].http = IF ok THEN "ok" ELSE "error"]
             /\ refData' = [refData EXCEPT ![r] = IF res.threw THEN <<>> ELSE res.data]
  /\ last' = Quiet("fetched")
  /\ UNCHANGED << props, loading, form, mutation, submitting, closed, inflight, aside >>

\* fetchClients / fetchTeamMembers of '@/services/api': one GET, resolving
\* to the list or rejecting.
fetchList(r, ok) == ApiGet(r, ok)

\* loadData of the tsx modal: await Promise.all([fetchClients(),
\* fetchTeamMembers()]), then setClients and setTeamMembers; catch logs;
\* finally setLoading(false).  One of the two promises settles here, and
\* what Promise.all then does runs with it.
LoadSettle(r, ok) ==
  /\ variant = "tsx"
  /\ q[r].status = "loading"
  /\ LET res == fetchList(r, ok)
         other == CHOOSE o \in Fetched("tsx") : o # r
         allPending == q[other].status # "error"
         allFulfilled == ~res.rejected /\ q[other].status = "success"
     IN /\ q' = [q EXCEPT ![r].status = IF res.rejected THEN "error" ELSE "success",
                          ![r].http = IF ok THEN "ok" ELSE "error"]
        /\ IF allFulfilled
           THEN /\ refData' = [refData EXCEPT ![r] = res.data,
                                              ![other] = BackendData(other)]
                /\ loading' = FALSE
           ELSE IF res.rejected /\ allPending
           THEN /\ UNCHANGED refData
                /\ loading' = FALSE
           ELSE UNCHANGED << refData, loading >>
  /\ last' = Quiet("fetched")
  /\ UNCHANGED << props, form, mutation, submitting, closed, inflight, aside >>

\* ------------------------------------------------------------------ form edits

\* What the user can type into the name input.
Names == {"", " ", "P"}

\* member._id || member.id || '' : the option value of a fetched item (rhf).
ItemId(item) == Or(item._id, Or(item.id, ""))

\* The option values of the rhf client Select.
ClientOptions ==
  IF Len(refData["clients"]) > 0
  THEN {ItemId(refData["clients"][i]) : i \in 1..Len(refData["clients"])}
  ELSE {"no-clients"}

\* The assignee options with a placeholder item when no member is listed.
AssigneeOptionsWithPlaceholder ==
  {"none"} \cup
  (IF Len(refData["teamMembers"]) > 0
   THEN {ItemId(refData["teamMembers"][i]) : i \in 1..Len(refData["teamMembers"])}
   ELSE {"no-members"})

\* The option values of the rhf assignee Select.
AssigneeOptions ==
  {"none"} \cup
  (IF Len(refData["teamMembers"]) > 0
   THEN {ItemId(refData["teamMembers"][i]) : i \in 1..Len(refData["teamMembers"])}
   ELSE {})

\* An onChange that sets the selection to the clicked member alone.
onChangeMemberReplace(fieldValue, id, checked) ==
  IF checked /\ Truthy(id) THEN <<id>>
  ELSE IF Truthy(id) THEN Without(fieldValue, id)
  ELSE fieldValue

\* An onChange that does not look at whether the member has an id.
onChangeMemberAnyId(fieldValue, id, checked) ==
  IF checked THEN Append(fieldValue, id) ELSE Without(fieldValue, id)

\* The onChange of a team-member checkbox (rhf): append the id when checked,
\* filter it out when unchecked; a member with no id changes nothing.
onChangeMember(fieldValue, id, checked) ==
  IF checked /\ Truthy(id) THEN Append(fieldValue, id)
  ELSE IF Truthy(id) THEN Without(fieldValue, id)
  ELSE fieldValue

\* A click on the checkbox of the i-th listed member: the checkbox is
\* controlled, so the click's `checked` is the negation of isSelected.
clickMember(fieldValue, i) ==
  LET id == ItemId(refData["teamMembers"][i])
      isSelected == IF Truthy(id) THEN id \in Range(fieldValue) ELSE FALSE
  IN onChangeMember(fieldValue, id, ~isSelected)

RhfEdit(field, value) ==
  /\ variant = "rhf"
  /\ ~closed
  /\ form' = [form EXCEPT ![field] = value]
  /\ last' = Quiet("edit")
  /\ UNCHANGED << props, q, refData, loading, mutation, submitting, closed,
                  inflight, aside >>

\* The name Input.
SetName == \E v \in Names : RhfEdit("name", v)
\* The client Select (onValueChange = field.onChange).
SelectClient == \E v \in ClientOptions : RhfEdit("clientId", v)
\* The assignee Select.
SelectAssignee == \E v \in AssigneeOptions : RhfEdit("assigneeId", v)
\* A team-member checkbox.
CheckMember ==
  \E i \in 1..Len(refData["teamMembers"]) :
     RhfEdit("teamMemberIds", clickMember(form.teamMemberIds, i))
\* The Yes / No buttons: form.setValue("isRecurring", b).
SetRecurring == \E b \in BOOLEAN : RhfEdit("isRecurring", b)

\* The frequency options of the tsx select; the first is the placeholder.
Frequencies == {"", "Daily", "Weekly", "Monthly", "Quarterly", "Yearly", "Custom"}

\* The option values of the tsx client select: the placeholder and client.id.
TsxClientOptions ==
  {""} \cup {refData["clients"][i].id : i \in 1..Len(refData["clients"])}

\* The option values of the tsx assignee select.
TsxAssigneeOptions ==
  {""} \cup {refData["teamMembers"][i].id : i \in 1..Len(refData["teamMembers"])}

\* e.target.selectedOptions of the multiple select after a click on the
\* i-th option: a ctrl/cmd click toggles that option, a plain click selects
\* it alone; the options come in document order.
selectedOptions(current, i, ctrl) ==
  LET members == refData["teamMembers"]
      id == members[i].id
      chosen == IF ctrl
                THEN IF id \in Range(current) THEN Range(current) \ {id}
                     ELSE Range(current) \cup {id}
                ELSE {id}
      ids == [k \in 1..Len(members) |-> members[k].id]
  IN SelectSeq(ids, LAMBDA v : v \in chosen)

\* handleInputChange / handleRepeatingChange / handleTeamMemberSelection:
\* setFormData(prev => ({...prev, [name]: value})).  The form is rendered
\* only once loading is false.
TsxEdit(field, value) ==
  /\ variant = "tsx"
  /\ ~closed
  /\ ~loading
  /\ form' = [form EXCEPT ![field] = value]
  /\ last' = Quiet("edit")
  /\ UNCHANGED << props, q, refData, loading, mutation, submitting, closed,
                  inflight, aside >>

TsxSetName == \E v \in Names : TsxEdit("name", v)
TsxSelectClient == \E v \in TsxClientOptions : TsxEdit("clientId", v)
TsxSelectAssignee == \E v \in TsxAssigneeOptions : TsxEdit("assigneeId", v)
TsxSelectMembers ==
  \E i \in 1..Len(refData["teamMembers"]), ctrl \in BOOLEAN :
     TsxEdit("teamMemberIds", selectedOptions(form.teamMemberIds, i, ctrl))
TsxSetRepeating == \E b \in BOOLEAN : TsxEdit("repeating", b)
\* The frequency select is rendered only while repeating is true.
TsxSelectFrequency ==
  /\ variant = "tsx" /\ form.repeating
  /\ \E v \in Frequencies : TsxEdit("frequency", v)

\* ------------------------------------------------------------------ rhf submit

\* projectSchema with clientId left a plain z.string().
projectSchemaAnyClient(values) ==
  { f \in {"name", "startDate"} :
      CASE f = "name" -> values.name = ""
        [] f = "startDate" -> ~IsValidDate(values.startDate) }

\* projectSchema: the fields zod rejects (name and clientId need one
\* character, startDate a valid Date, status one of the enum).
projectSchema(values) ==
  { f \in {"name", "clientId", "startDate", "status"} :
      CASE f = "name" -> values.name = ""
        [] f = "clientId" -> values.clientId = ""
        [] f = "startDate" -> ~IsValidDate(values.startDate)
        [] f = "status" -> values.status \notin {"Not Started", "In Progress", "Complete"} }

\* Array.isArray.
IsArray(v) == DOMAIN v = 1..Len(v)

\* formattedData that spreads the values and nothing more.
formattedDataSpreadOnly(data) == data

\* formattedData of both mutationFns.
formattedData(data) ==
  [data EXCEPT !.assigneeId = IF data.assigneeId = "none" THEN Null ELSE data.assigneeId,
               !.teamMemberIds = IF IsArray(data.teamMemberIds) THEN data.teamMemberIds ELSE <<>>]

Request(method, path, id, data) ==
  [method |-> method, path |-> path, id |-> id, data |-> data]

\* createMutation.mutationFn: api.post('/projects', formattedData).
createRequest(data) == Request("POST", "/projects", Undefined, formattedData(data))

\* updateMutation.mutationFn: api.patch(`/projects/${id}`, formattedData).
updateRequest(id, data) == Request("PATCH", "/projects", id, formattedData(data))

\* onSubmit that never looks at isEditing.
onSubmitAlwaysCreate(values) ==
  [mutate |-> "create", requests |-> <<createRequest(values)>>, toasts |-> <<>>]

\* onSubmit that creates when the edited record has no id.
onSubmitFallsThrough(values) ==
  IF isEditing /\ project # None /\ Truthy(Or(project[1].id, project[1]._id))
  THEN [mutate |-> "update",
        requests |-> <<updateRequest(Or(project[1].id, project[1]._id), values)>>,
        toasts |-> <<>>]
  ELSE [mutate |-> "create", requests |-> <<createRequest(values)>>, toasts |-> <<>>]

\* onSubmit: which mutation is started, or the toast shown instead.
onSubmit(values) ==
  IF isEditing /\ project # None
  THEN LET projectId == Or(project[1].id, project[1]._id) IN
       IF Truthy(projectId)
       THEN [mutate |-> "update", requests |-> <<updateRequest(projectId, values)>>,
             toasts |-> <<>>]
       ELSE [mutate |-> "none", requests |-> <<>>,
             toasts |-> << <<"error", "Cannot update project: Missing project ID">> >>]
  ELSE [mutate |-> "create", requests |-> <<createRequest(values)>>, toasts |-> <<>>]

\* isPending that watches createMutation alone.
isPendingCreateOnly == mutation.create = "pending"

\* createMutation.isPending || updateMutation.isPending.
isPending == mutation.create = "pending" \/ mutation.update = "pending"

\* A click on the submit button (disabled while isPending):
\* form.handleSubmit(onSubmit) validates with the zod resolver and calls
\* onSubmit only when no field is rejected.
Submit ==
  /\ variant = "rhf"
  /\ ~closed
  /\ ~isPending
  /\ LET invalid == projectSchema(form) IN
     IF invalid # {}
     THEN /\ last' = Emit("submit", Undefined, invalid, <<>>, <<>>, <<>>)
          /\ UNCHANGED mutation
     ELSE LET did == onSubmit(form) IN
          /\ last' = Emit("submit", Undefined, {}, did.requests, did.toasts, <<>>)
          /\ mutation' = IF did.mutate = "none" THEN mutation
                         ELSE [mutation EXCEPT ![did.mutate] = "pending"]
  /\ inflight' = inflight + Len(last'.requests)
  /\ UNCHANGED << props, q, refData, loading, form, submitting, closed, aside >>

\* onSuccess that passes data.id alone.
createOnSuccessIdOnly(data) ==
  [ toasts |-> << <<"success", "Project created successfully">> >>,
    callbacks |-> IF onCreated THEN << <<"onCreated", data.id>> >> ELSE <<>> ]

\* onSuccess of createMutation: toast.success, then onCreated(data._id ||
\* data.id) when the caller supplied onCreated.
createOnSuccess(data) ==
  [ toasts |-> << <<"success", "Project created successfully">> >>,
    callbacks |-> IF onCreated THEN << <<"onCreated", Or(data._id, data.id)>> >>
                  ELSE <<>> ]

\* onSuccess of updateMutation: toast.success, then onUpdated() when the
\* caller supplied onUpdated.
updateOnSuccess ==
  [ toasts |-> << <<"success", "Project updated successfully">> >>,
    callbacks |-> IF onUpdated THEN << <<"onUpdated", Undefined>> >> ELSE <<>> ]

\* onError that also tells the caller to close.
onErrorClosing(message, fallback) ==
  [ toasts |-> << <<"error", Or(message, fallback)>> >>,
    callbacks |-> << <<"onClose", Undefined>> >> ]

\* onError of both mutations: error?.response?.data?.message || fallback.
onError(message, fallback) ==
  [ toasts |-> << <<"error", Or(message, fallback)>> >>, callbacks |-> <<>> ]

\* POST /projects answered with the created project.
CreateSucceed ==
  /\ variant = "rhf"
  /\ mutation.create = "pending"
  /\ \E data \in CreateResponses :
       LET did == createOnSuccess(data) IN
       last' = Emit("createSuccess", data, {}, <<>>, did.toasts, did.callbacks)
  /\ mutation' = [mutation EXCEPT !.create = "success"]
  /\ inflight' = inflight - 1
  /\ closed' = (closed \/ takesDown(last'.callbacks))
  /\ UNCHANGED << props, q, refData, loading, form, submitting, aside >>

\* PATCH /projects/:id answered.
UpdateSucceed ==
  /\ variant = "rhf"
  /\ mutation.update = "pending"
  /\ LET did == updateOnSuccess IN
     last' = Emit("updateSuccess", Undefined, {}, <<>>, did.toasts, did.callbacks)
  /\ mutation' = [mutation EXCEPT !.update = "success"]
  /\ inflight' = inflight - 1
  /\ closed' = (closed \/ takesDown(last'.callbacks))
  /\ UNCHANGED << props, q, refData, loading, form, submitting, aside >>

\* A mutation request failed: the mutationFn logs and rethrows, and onError
\* runs.  (useMutation is given no retry and the QueryClient sets defaults
\* for queries only, so the failure goes straight to onError.)
MutationFail(m, op, fallback) ==
  /\ variant = "rhf"
  /\ mutation[m] = "pending"
  /\ \E message \in ErrorMessages :
       LET did == onError(message, fallback) IN
       last' = Emit(op, message, {}, <<>>, did.toasts, did.callbacks)
  /\ mutation' = [mutation EXCEPT ![m] = "error"]
  /\ inflight' = inflight - 1
  /\ closed' = (closed \/ takesDown(last'.callbacks))
  /\ UNCHANGED << props, q, refData, loading, form, submitting, aside >>

CreateFail == MutationFail("create", "createError", "Failed to create project")
UpdateFail == MutationFail("update", "updateError", "Failed to update project")

\* ------------------------------------------------------------------ tsx submit

\* The required controls with the frequency select not marked required.
requiredMissingNoFrequency(values) ==
  { f \in {"name", "clientId"} :
      CASE f = "name" -> values.name = ""
        [] f = "clientId" -> values.clientId = "" }

\* The browser's constraint validation of the tsx form on a submit click:
\* the controls marked required whose value is empty (the name input, the
\* client select, and the frequency select while it is rendered).
requiredMissing(values) ==
  { f \in {"name", "clientId", "frequency"} :
      CASE f = "name" -> values.name = ""
        [] f = "clientId" -> values.clientId = ""
        [] f = "frequency" -> values.repeating /\ values.frequency \in {Undefined, ""} }

\* createProject of '@/services/api': POST /projects with the new project.
createProject(newProject) == Request("POST", "/projects", Undefined, newProject)

\* handleSubmit: the two checks, then createProject({...formData, frequency,
\* status: 'Not Started'}).
handleSubmit(values) ==
  IF Trim(values.name) = ""
  THEN [sent |-> FALSE, requests |-> <<>>,
        toasts |-> << <<"error", "Project name is required">> >>]
  ELSE IF ~Truthy(values.clientId)
  THEN [sent |-> FALSE, requests |-> <<>>,
        toasts |-> << <<"error", "Client selection is required">> >>]
  ELSE [sent |-> TRUE,
        requests |-> << createProject(
            [ name |-> values.name, description |-> values.description,
              clientId |-> values.clientId, assigneeId |-> values.assigneeId,
              teamMemberIds |-> values.teamMemberIds, repeating |-> values.repeating,
              dueDate |-> values.dueDate, frequency |-> values.frequency,
              status |-> "Not Started" ]) >>,
        toasts |-> <<>>]

\* A click on the tsx submit button (disabled while submitting): the browser
\* validates the required controls and fires the submit event only when none
\* is missing; handleSubmit then runs.
TsxSubmit ==
  /\ variant = "tsx"
  /\ ~closed
  /\ ~loading
  /\ ~submitting
  /\ LET missing == requiredMissing(form) IN
     IF missing # {}
     THEN /\ last' = Emit("submit", Undefined, missing, <<>>, <<>>, <<>>)
          /\ UNCHANGED submitting
     ELSE LET did == handleSubmit(form) IN
          /\ last' = Emit("submit", Undefined, IF did.sent THEN {} ELSE {"handleSubmit"},
                          did.requests, did.toasts, <<>>)
          /\ submitting' = did.sent
  /\ inflight' = inflight + Len(last'.requests)
  /\ UNCHANGED << props, q, refData, loading, form, mutation, closed, aside >>

\* await createProject resolved: toast.success, onClose(), and finally
\* setSubmitting(false).
TsxCreateSucceed ==
  /\ variant = "tsx"
  /\ submitting
  /\ last' = Emit("createSuccess", Undefined, {}, <<>>,
                  << <<"success", "Project created successfully">> >>,
                  << <<"onClose", Undefined>> >>)
  /\ submitting' = FALSE
  /\ inflight' = inflight - 1
  /\ closed' = (closed \/ takesDown(last'.callbacks))
  /\ UNCHANGED << props, q, refData, loading, form, mutation, aside >>

\* await createProject rejected, with or without a message of the backend:
\* the catch logs the error and shows the fixed toast; finally
\* setSubmitting(false).
TsxCreateFail ==
  /\ variant = "tsx"
  /\ submitting
  /\ \E message \in ErrorMessages :
       last' = Emit("createError", message, {}, <<>>,
                    << <<"error", "Failed to create project">> >>, <<>>)
  /\ submitting' = FALSE
  /\ inflight' = inflight - 1
  /\ closed' = (closed \/ takesDown(last'.callbacks))
  /\ UNCHANGED << props, q, refData, loading, form, mutation, aside >>

\* ------------------------------------------------------------------ closing

\* Dismissing that cancels the request.
dismissAborting ==
  [ callbacks |-> << <<"onClose", Undefined>> >>,
    mutation |-> [create |-> "idle", update |-> "idle"],
    submitting |-> FALSE, inflight |-> 0 ]

\* What dismissing the modal does: onClose(), and nothing else.  Neither
\* modal keeps a handle on its request (no AbortController, no cleanup
\* effect), so the request and its handlers are left as they are.
dismiss ==
  [ callbacks |-> << <<"onClose", Undefined>> >>,
    mutation |-> mutation, submitting |-> submitting, inflight |-> inflight ]

\* The user dismisses the modal: Escape, an outside click or Cancel in the
\* rhf dialog (onOpenChange={onClose}, DialogClose); the overlay, the X or
\* Cancel in the tsx modal, which renders none of them while loading.
Close ==
  /\ ~closed
  /\ variant = "tsx" => ~loading
  /\ LET did == dismiss IN
     /\ last' = Emit("close", Undefined, {}, <<>>, <<>>, did.callbacks)
     /\ mutation' = did.mutation
     /\ submitting' = did.submitting
     /\ inflight' = did.inflight
  /\ closed' = takesDown(last'.callbacks)
  /\ UNCHANGED << props, q, refData, loading, form, aside >>

\* ------------------------------------------------------------------ specification

Next ==
  \/ \E r \in Resources, ok \in BOOLEAN : QuerySettle(r, ok)
  \/ \E r \in Resources, ok \in BOOLEAN : LoadSettle(r, ok)
  \/ SetName
  \/ SelectClient
  \/ SelectAssignee
  \/ CheckMember
  \/ SetRecurring
  \/ Submit
  \/ CreateSucceed
  \/ UpdateSucceed
  \/ CreateFail
  \/ UpdateFail
  \/ TsxSetName
  \/ TsxSelectClient
  \/ TsxSelectAssignee
  \/ TsxSelectMembers
  \/ TsxSetRepeating
  \/ TsxSelectFrequency
  \/ TsxSubmit
  \/ TsxCreateSucceed
  \/ TsxCreateFail
  \/ Close

Spec == Init /\ [][Next]_vars

\* ------------------------------------------------------------------ initial values

\* useEffect(() => { if (project && isEditing) form.reset(getDefaultValues()) }):
\* the effect as it runs after the first render.
ResetEffect ==
  /\ variant = "rhf"
  /\ last.op = "mount"
  /\ form' = IF project # None /\ isEditing
             THEN getDefaultValues(project, isEditing) ELSE form
  /\ last' = Quiet("reset")
  /\ UNCHANGED << props, q, refData, loading, mutation, submitting, closed,
                  inflight, aside >>

\* The rhf modal mounted with any of the project records.
InitDefaults ==
  InitModal({"rhf"}, {None} \cup {Some(p) : p \in AllProjects}, {FALSE})

NextDefaults == ResetEffect

SpecDefaults == InitDefaults /\ [][NextDefaults]_vars

\* ------------------------------------------------------------------ team members

\* Either modal with the three team members A, B, C listed and none selected.
InitTeam ==
  /\ variant \in Variants
  /\ project = None /\ isEditing = FALSE
  /\ onCreated = FALSE /\ onUpdated = FALSE
  /\ q = [ r \in Resources |->
             IF r \in Fetched(variant)
             THEN [status |-> "success", gets |-> 1, http |-> "ok"]
             ELSE [status |-> "idle", gets |-> 0, http |-> "none"] ]
  /\ refData = [ r \in Resources |->
                   IF r = "teamMembers" THEN AllMembers
                   ELSE IF r \in Fetched(variant) THEN BackendData(r) ELSE <<>> ]
  /\ loading = FALSE
  /\ form = IF variant = "rhf" THEN getDefaultValues(project, isEditing)
            ELSE tsxInitialForm
  /\ mutation = [create |-> "idle", update |-> "idle"]
  /\ submitting = FALSE
  /\ last = Quiet("mount")
  /\ picked = <<>>
  /\ closed = FALSE
  /\ inflight = 0
  /\ LinkAtRest
  /\ ApiAtRest

\* A click on the checkbox of the i-th member (rhf), recorded in picked.
TeamCheck(i) ==
  /\ variant = "rhf"
  /\ Len(picked) < MaxClicks
  /\ form' = [form EXCEPT !.teamMemberIds = clickMember(form.teamMemberIds, i)]
  /\ picked' = Append(picked, <<ItemId(refData["teamMembers"][i]), "toggle">>)
  /\ last' = Quiet("edit")
  /\ UNCHANGED << props, q, refData, loading, mutation, submitting, closed,
                  inflight, link, token, wire >>

\* A click on the i-th option of the multiple select (tsx), with or without
\* ctrl/cmd, recorded in picked.
TeamSelect(i, ctrl) ==
  /\ variant = "tsx"
  /\ Len(picked) < MaxClicks
  /\ form' = [form EXCEPT !.teamMemberIds = selectedOptions(form.teamMemberIds, i, ctrl)]
  /\ picked' = Append(picked, <<refData["teamMembers"][i].id,
                                IF ctrl THEN "toggle" ELSE "only">>)
  /\ last' = Quiet("edit")
  /\ UNCHANGED << props, q, refData, loading, mutation, submitting, closed,
                  inflight, link, token, wire >>

NextTeam ==
  \/ \E i \in 1..Len(refData["teamMembers"]) : TeamCheck(i)
  \/ \E i \in 1..Len(refData["teamMembers"]), ctrl \in BOOLEAN : TeamSelect(i, ctrl)

SpecTeam == InitTeam /\ [][NextTeam]_vars

\* ------------------------------------------------------------------ checkbox toggles

\* The members listed by the rhf modal: A, B, C, and one the backend sent
\* with neither _id nor id.
ListedMembers ==
  AllMembers \o << [_id |-> Undefined, id |-> Undefined, name |-> "Dee"] >>

\* The identifiers of the listed members that have one.
ListedIds ==
  {ItemId(ListedMembers[i]) : i \in 1..Len(ListedMembers)} \ {""}

\* The duplicate-free selections over the listed identifiers, in any order.
Selections ==
  { s \in UNION {[1..n -> ListedIds] : n \in 0..Cardinality(ListedIds)} :
      \A i, j \in DOMAIN s : i # j => s[i] # s[j] }

\* The rhf modal editing a record whose teamMemberIds is one of the
\* selections, with the members fetched: the form starts from the record's
\* selection (getDefaultValues).
InitToggle ==
  /\ variant = "rhf"
  /\ isEditing = TRUE
  /\ project \in { Some([Proj("p1", Undefined, Undefined)
                           EXCEPT !.teamMemberIds = Some(sel)]) : sel \in Selections }
  /\ onCreated = FALSE /\ onUpdated = FALSE
  /\ q = [r \in Resources |-> [status |-> "success", gets |-> 1, http |-> "ok"]]
  /\ refData = [ r \in Resources |->
                   IF r = "teamMembers" THEN ListedMembers ELSE BackendData(r) ]
  /\ loading = FALSE
  /\ form = getDefaultValues(project, isEditing)
  /\ mutation = [create |-> "idle", update |-> "idle"]
  /\ submitting = FALSE
  /\ last = Quiet("mount")
  /\ picked = <<>>
  /\ closed = FALSE
  /\ inflight = 0
  /\ LinkAtRest
  /\ ApiAtRest

NextToggle == \E i \in 1..Len(refData["teamMembers"]) : TeamCheck(i)

SpecToggle == InitToggle /\ [][NextToggle]_vars

\* ------------------------------------------------------------------ pagination

\* No modal is involved: its variables stay at the values of a freshly
\* mounted rhf modal without props.
ModalAtRest ==
  /\ variant = "rhf"
  /\ project = None /\ isEditing = FALSE
  /\ onCreated = FALSE /\ onUpdated = FALSE
  /\ q = [r \in Resources |-> [status |-> "loading", gets |-> 1, http |-> "none"]]
  /\ refData = [r \in Resources |-> <<>>]
  /\ loading = FALSE
  /\ form = defaultValues
  /\ mutation = [create |-> "idle", update |-> "idle"]
  /\ submitting = FALSE
  /\ last = Quiet("mount")
  /\ picked = <<>>
  /\ closed = FALSE
  /\ inflight = 0

\* The three link components.
LinkComponents == {"PaginationLink", "PaginationPrevious", "PaginationNext"}

\* The props a caller can pass: isActive and disabled are optional booleans,
\* size, href and onClick are optional; a caller's onClick either leaves the
\* event alone ("plain") or calls e.preventDefault() itself ("preventing").
LinkProps ==
  [ isActive : {None, Some(TRUE), Some(FALSE)},
    disabled : {None, Some(TRUE), Some(FALSE)},
    size : {Undefined, "sm"},
    href : {Undefined, "/page/2"},
    onClick : {Undefined, "plain", "preventing"} ]

\* A click event before any handler has seen it.
NewEvent == [ defaultPrevented |-> FALSE, byComponent |-> FALSE, callerRan |-> FALSE ]

\* Calling a handler of the caller with the event; undefined?.(e) is no call.
callOnClick(handler, e) ==
  IF handler = Undefined THEN e
  ELSE [e EXCEPT !.callerRan = TRUE,
                 !.defaultPrevented = @ \/ handler = "preventing"]

\* The handler PaginationLink writes on the anchor:
\* (e) => { if (disabled) e.preventDefault(); props.onClick?.(e) }.
linkOnClick(p, e) ==
  LET e1 == IF TruthyB(p.disabled)
            THEN [e EXCEPT !.defaultPrevented = TRUE, !.byComponent = TRUE]
            ELSE e
  IN callOnClick(p.onClick, e1)

\* The anchor PaginationLink renders.  The attributes are applied in JSX
\* order: onClick={...} comes first and {...props} after it, so an onClick
\* among the remaining props is the one the anchor ends up with.
PaginationLink(p) ==
  [ ariaCurrent |-> IF TruthyB(p.isActive) THEN "page" ELSE Undefined,
    ariaDisabled |-> p.disabled,
    variant |-> IF TruthyB(p.isActive) THEN "outline" ELSE "ghost",
    size |-> IF p.size = Undefined THEN "icon" ELSE p.size,
    pointerEvents |-> IF TruthyB(p.disabled) THEN "none" ELSE "auto",
    href |-> p.href,
    onClick |-> IF p.onClick # Undefined THEN "caller" ELSE "component" ]

\* PaginationPrevious and PaginationNext: PaginationLink with size="default"
\* ahead of the caller's props.
PaginationPrevious(p) ==
  PaginationLink([p EXCEPT !.size = IF @ = Undefined THEN "default" ELSE @])

PaginationNext(p) ==
  PaginationLink([p EXCEPT !.size = IF @ = Undefined THEN "default" ELSE @])

rendered(component, p) ==
  CASE component = "PaginationLink" -> PaginationLink(p)
    [] component = "PaginationPrevious" -> PaginationPrevious(p)
    [] component = "PaginationNext" -> PaginationNext(p)

\* No click made yet.
NoClick == [ kind |-> "none", delivered |-> FALSE, event |-> NewEvent,
             navigated |-> FALSE ]

\* A caller has rendered one of the links with some props.
InitPagination ==
  /\ ModalAtRest
  /\ ApiAtRest
  /\ link \in [ component : LinkComponents, props : LinkProps, click : {NoClick} ]

\* The caller renders the link again with other props.
Rerender ==
  /\ \E p \in LinkProps : link' = [link EXCEPT !.props = p, !.click = NoClick]
  /\ UNCHANGED << props, q, refData, loading, form, mutation, submitting, last,
                  picked, closed, inflight, token, wire >>

\* The user activates the link: with the pointer, which an anchor styled
\* pointer-events-none does not receive, or with the keyboard (Enter on the
\* focused anchor, which takes focus only when it has an href).  The anchor's
\* onClick runs, and the browser follows the href unless the event was
\* default-prevented.
Click(kind) ==
  /\ kind = "keyboard" => link.props.href # Undefined
  /\ LET a == rendered(link.component, link.props)
         delivered == kind = "keyboard" \/ a.pointerEvents # "none"
         e == IF ~delivered THEN NewEvent
              ELSE IF a.onClick = "component" THEN linkOnClick(link.props, NewEvent)
              ELSE callOnClick(link.props.onClick, NewEvent)
     IN link' = [link EXCEPT !.click =
                   [ kind |-> kind, delivered |-> delivered, event |-> e,
                     navigated |-> delivered /\ a.href # Undefined
                                   /\ ~e.defaultPrevented ]]
  /\ UNCHANGED << props, q, refData, loading, form, mutation, submitting, last,
                  picked, closed, inflight, token, wire >>

NextPagination ==
  \/ Rerender
  \/ \E kind \in {"pointer", "keyboard"} : Click(kind)

SpecPagination == InitPagination /\ [][NextPagination]_vars

\* ------------------------------------------------------------------ api client

\* The most requests followed on the wire.
MaxRequests == 2

\* What localStorage can hold under 'token': nothing (getItem gives null),
\* the empty string, or a token.
Tokens == {"t1", "t2"}
Stored == {Null, ""} \cup Tokens

\* The calls made through the client.
ApiCalls == { <<"GET", "/clients">>, <<"GET", "/team-members">>, <<"GET", "/templates">>,
              <<"POST", "/projects">>, <<"PATCH", "/projects/:id">> }

\* The config axios hands to the request interceptors: the instance
\* defaults merged with the call.
config(call) ==
  [ method |-> call[1], url |-> call[2],
    headers |-> [ ContentType |-> "application/json", Authorization |-> None ] ]

\* An interceptor that adds the header whatever getItem returned.
interceptorAlwaysBearer(cfg, storage) ==
  [cfg EXCEPT !.headers.Authorization = Some(<<"Bearer", storage>>)]

\* The request interceptor: const token = localStorage.getItem('token');
\* if (token) config.headers['Authorization'] = `Bearer ${token}`.
interceptor(cfg, storage) ==
  LET t == storage IN
  IF Truthy(t) THEN [cfg EXCEPT !.headers.Authorization = Some(<<"Bearer", t>>)]
  ELSE cfg

\* The client exists, nothing is sent yet, localStorage holds any value.
InitApi ==
  /\ ModalAtRest
  /\ LinkAtRest
  /\ token \in Stored
  /\ wire = <<>>

\* The application stores a token or the empty string under 'token'.
SetItem(t) ==
  /\ t # Null /\ t # token
  /\ token' = t
  /\ UNCHANGED << props, q, refData, loading, form, mutation, submitting, last,
                  picked, closed, inflight, link, wire >>

\* The application removes 'token'.
RemoveItem ==
  /\ token # Null
  /\ token' = Null
  /\ UNCHANGED << props, q, refData, loading, form, mutation, submitting, last,
                  picked, closed, inflight, link, wire >>

\* A call through the client: the interceptor runs on its config with
\* localStorage as it is now, and the request goes out.  `stored` notes what
\* localStorage held at that moment.
Send(call) ==
  /\ Len(wire) < MaxRequests
  /\ wire' = Append(wire, [ request |-> interceptor(config(call), token),
                            stored |-> token ])
  /\ UNCHANGED << props, q, refData, loading, form, mutation, submitting, last,
                  picked, closed, inflight, link, token >>

NextApi ==
  \/ \E t \in Stored : SetItem(t)
  \/ RemoveItem
  \/ \E call \in ApiCalls : Send(call)

SpecApi == InitApi /\ [][NextApi]_vars

\* ------------------------------------------------------------------ claims

\* The mutation requests the latest task sent.
Sent == {last.requests[i] : i \in 1..Len(last.requests)}

\* The callbacks of a given name the latest task invoked, in order.
Calls(name) == SelectSeq(last.callbacks, LAMBDA c : c[1] = name)

\* C1: in both variants, a submit made while the name is empty or the client
\* reference is empty sends no create or update request.
C1_EmptyNameOrClientSendsNothing ==
  (last.op = "submit" /\ (form.name = "" \/ form.clientId = ""))
    => last.requests = <<>>

\* C1 witness: the rhf modal rejected a submit with a name and no client.
C1_Witness ==
  /\ variant = "rhf" /\ last.op = "submit"
  /\ form.name = "P" /\ form.clientId = ""
  /\ "clientId" \in last.invalid

\* The identifier of the supplied record: id, else _id.
RecordId == IF project[1].id \notin {Undefined, ""} THEN project[1].id
            ELSE project[1]._id

\* C2 as stated: every submit that passes validation sends exactly one
\* request: a PATCH keyed by the record's identifier when editing an
\* existing record, a POST when not editing.
C2_AsStated ==
  (last.op = "submit" /\ last.invalid = {})
    => /\ Len(last.requests) = 1
       /\ (isEditing /\ project # None)
            => /\ last.requests[1].method = "PATCH"
               /\ last.requests[1].id = RecordId
       /\ ~isEditing => last.requests[1].method = "POST"

\* C2 amended: a submit that passes validation sends exactly one request (a
\* PATCH keyed by the record's id or _id when editing a supplied record that
\* has one, a POST when not editing or when no record is supplied), except
\* that editing a record with neither id nor _id sends none; and the task
\* that settles a mutation, failed or not, sends no request.
C2_OneRequestPerValidSubmit ==
  /\ (last.op = "submit" /\ last.invalid = {})
       => IF isEditing /\ project # None
          THEN IF RecordId \in {Undefined, ""}
               THEN last.requests = <<>>
               ELSE /\ Len(last.requests) = 1
                    /\ last.requests[1].method = "PATCH"
                    /\ last.requests[1].path = "/projects"
                    /\ last.requests[1].id = RecordId
          ELSE /\ Len(last.requests) = 1
               /\ last.requests[1].method = "POST"
               /\ last.requests[1].path = "/projects"
               /\ last.requests[1].id = Undefined
  /\ last.op \in {"createError", "updateError", "createSuccess", "updateSuccess"}
       => last.requests = <<>>

\* C2 witness: a valid submit while editing the record identified by _id sent one PATCH keyed by it.
C2_Witness ==
  /\ last.op = "submit" /\ isEditing /\ project # None
  /\ Len(last.requests) = 1
  /\ last.requests[1].method = "PATCH" /\ last.requests[1].id = "p2"

\* C3: in the tsx modal, a submit made while repeating is true and no
\* frequency is chosen sends no request, and no request carries
\* repeating = true with an absent or empty frequency.
C3_RepeatingNeedsFrequency ==
  variant = "tsx"
    => /\ (last.op = "submit" /\ form.repeating /\ form.frequency \in {Undefined, ""})
            => last.requests = <<>>
       /\ \A r \in Sent : r.data.repeating => r.data.frequency \notin {Undefined, ""}

\* C3 witness: the tsx modal blocked a submit that was complete but for the frequency.
C3_Witness ==
  /\ variant = "tsx" /\ last.op = "submit"
  /\ form.name = "P" /\ form.clientId = "c1"
  /\ form.repeating /\ form.frequency = Undefined
  /\ last.invalid = {"frequency"}

\* C5: a successful create shows the success toast and, when the caller
\* supplied onCreated, invokes it exactly once with the identifier of the
\* response, and does not invoke onUpdated; a successful update invokes a
\* supplied onUpdated exactly once with no argument, and not onCreated.
C5_SuccessCallbacks ==
  /\ last.op = "createSuccess"
       => /\ last.toasts = << <<"success", "Project created successfully">> >>
          /\ Calls("onUpdated") = <<>>
          /\ (variant = "rhf" /\ onCreated)
               => Calls("onCreated") =
                    << <<"onCreated",
                         IF last.input._id # Undefined THEN last.input._id
                         ELSE last.input.id>> >>
  /\ last.op = "updateSuccess"
       => /\ Calls("onCreated") = <<>>
          /\ onUpdated => Calls("onUpdated") = << <<"onUpdated", Undefined>> >>

\* C5 witness: a create answered with _id alone reached a supplied onCreated.
C5_Witness ==
  /\ variant = "rhf" /\ last.op = "createSuccess" /\ onCreated
  /\ last.input._id = "p9" /\ last.input.id = Undefined
  /\ last.callbacks = << <<"onCreated", "p9">> >>

\* C6 as stated: a read fetch of the rhf modal that ended in failure was
\* retried once, so two GETs were issued for it.
C6_FailedFetchRetriedOnce ==
  \A r \in Resources :
    (variant = "rhf" /\ q[r].status # "loading" /\ q[r].http = "error")
      => q[r].gets = 2

\* Every read fetch of the mounted modal has settled.
AllSettled == \A r \in Fetched(variant) : q[r].status # "loading"

\* C7 as stated: once the fetches have settled, a resource whose fetch
\* succeeded is rendered with the fetched list and one whose fetch failed
\* with the empty list.
C7_IndependentFallback ==
  AllSettled
    => \A r \in Fetched(variant) :
         refData[r] = IF q[r].http = "ok" THEN BackendData(r) ELSE <<>>

\* The team-members fetch of the rhf modal has failed.
TeamFetchFailed ==
  variant = "rhf" /\ q["teamMembers"].status # "loading"
    /\ q["teamMembers"].http = "error"

\* C8 as stated: when the team-members fetch failed the assignee selector
\* offers only "none", and every request sent carries an absent assignee.
C8_AsStated ==
  TeamFetchFailed
    => /\ AssigneeOptions = {"none"}
       /\ \A r \in Sent : r.data.assigneeId = Null

\* C8 amended: when the team-members fetch failed the assignee selector
\* offers only "none", and a request carries either an absent assignee or
\* the assignee the form was initialised with (the edited record's).
C8_OnlyNoneOffered ==
  TeamFetchFailed
    => /\ AssigneeOptions = {"none"}
       /\ \A r \in Sent :
            \/ r.data.assigneeId = Null
            \/ r.data.assigneeId = getDefaultValues(project, isEditing).assigneeId

\* C8 witness: a submit after the team-members fetch failed sent an absent assignee.
C8_Witness ==
  /\ TeamFetchFailed /\ last.op = "submit" /\ Len(last.requests) = 1
  /\ last.requests[1].data.assigneeId = Null

\* C10: no request carries the assignee "none": a form assignee of "none"
\* is sent as null, any other is sent unchanged, and the team-member
\* selection sent is the form's list.
C10_NoneIsSentAsNull ==
  \A r \in Sent :
    /\ r.data.assigneeId # "none"
    /\ form.assigneeId = "none" => r.data.assigneeId = Null
    /\ form.assigneeId # "none" => r.data.assigneeId = form.assigneeId
    /\ IsArray(r.data.teamMemberIds)
    /\ r.data.teamMemberIds = form.teamMemberIds

\* C10 witness: the rhf modal sent a form whose assignee was "none".
C10_Witness ==
  /\ variant = "rhf" /\ last.op = "submit" /\ Len(last.requests) = 1
  /\ form.assigneeId = "none"
  /\ last.requests[1].data.assigneeId = Null

\* A and C were selected, in either order, and nothing else was clicked.
PickedAandC ==
  \/ picked = << <<"A", "toggle">>, <<"C", "toggle">> >>
  \/ picked = << <<"C", "toggle">>, <<"A", "toggle">> >>

\* C4 as stated: selecting A and C in either order yields the list [A, C].
C4_AsStated == PickedAandC => form.teamMemberIds = <<"A", "C">>

\* C4 amended: selecting A and C in either order yields a list holding
\* exactly A and C, each once; the multiple select (tsx) lists them in
\* document order, [A, C], and the checkboxes (rhf) in the order clicked.
C4_SameMembersEitherOrder ==
  PickedAandC
    => /\ Range(form.teamMemberIds) = {"A", "C"}
       /\ Len(form.teamMemberIds) = 2
       /\ variant = "tsx" => form.teamMemberIds = <<"A", "C">>
       /\ variant = "rhf" => form.teamMemberIds = <<picked[1][1], picked[2][1]>>

\* C4 witness: the checkboxes, C checked before A.
C4_Witness ==
  /\ variant = "rhf"
  /\ picked = << <<"C", "toggle">>, <<"A", "toggle">> >>
  /\ form.teamMemberIds = <<"C", "A">>

\* The form has its initial values: nothing but mounting has happened.
InitialForm == variant = "rhf" /\ last.op \in {"mount", "reset"}

\* C9 as stated: in edit mode every field present on the record is taken
\* as it is and every absent one takes its default; with isEditing false
\* all fields take the defaults.
C9_AsStated ==
  InitialForm =>
    IF project # None /\ isEditing
    THEN LET p == project[1] IN
         /\ form.name = p.name
         /\ form.clientId = p.clientId
         /\ form.description = IF p.description # Undefined THEN p.description ELSE ""
         /\ form.assigneeId = IF p.assigneeId # Undefined THEN p.assigneeId ELSE "none"
         /\ form.teamMemberIds = IF p.teamMemberIds # None THEN p.teamMemberIds[1] ELSE <<>>
         /\ p.repeating # None => form.isRecurring = p.repeating[1]
         /\ p.isRecurring # None => form.isRecurring = p.isRecurring[1]
         /\ (p.repeating = None /\ p.isRecurring = None) => form.isRecurring = FALSE
         /\ form.templateId = IF p.templateId # Undefined THEN p.templateId ELSE ""
         /\ form.status = IF p.status # Undefined THEN p.status ELSE "Not Started"
    ELSE form = defaultValues

\* C9 amended: in edit mode every field the record holds with a non-empty
\* value is taken as it is and every absent or empty one takes its default
\* (an empty assignee becomes "none"); recurrence is true exactly when the
\* record's repeating or isRecurring is true; the start date is the record's
\* startDate, else its dueDate, else now.  With isEditing false, or no
\* project, all fields take the defaults.
C9_InitialValues ==
  InitialForm =>
    IF project # None /\ isEditing
    THEN LET p == project[1] IN
         /\ form.name = p.name
         /\ form.clientId = p.clientId
         /\ form.description = IF p.description # Undefined THEN p.description ELSE ""
         /\ form.assigneeId = IF p.assigneeId \in {Undefined, ""} THEN "none"
                              ELSE p.assigneeId
         /\ form.teamMemberIds = IF p.teamMemberIds # None THEN p.teamMemberIds[1] ELSE <<>>
         /\ form.isRecurring = (p.repeating = Some(TRUE) \/ p.isRecurring = Some(TRUE))
         /\ form.templateId = IF p.templateId # Undefined THEN p.templateId ELSE ""
         /\ form.status = IF p.status # Undefined THEN p.status ELSE "Not Started"
         /\ form.startDate = IF p.startDate # Undefined THEN NewDate(p.startDate)
                             ELSE IF p.dueDate # Undefined THEN NewDate(p.dueDate)
                             ELSE Now
    ELSE form = defaultValues

\* C9 witness: the reset of an edited record with no status, an assignee and two team members.
C9_Witness ==
  /\ InitialForm /\ last.op = "reset" /\ isEditing /\ project # None
  /\ project[1].status = Undefined /\ form.status = "Not Started"
  /\ project[1].assigneeId = "Z" /\ form.assigneeId = "Z"
  /\ project[1].teamMemberIds = Some(<<"A", "B">>) /\ form.teamMemberIds = <<"A", "B">>

\* A create or update request has just failed.
Failed == last.op \in {"createError", "updateError"}

\* The generic text of the failure notification.
GenericFailure == IF last.op = "createError" THEN "Failed to create project"
                  ELSE "Failed to update project"

\* C11: a failed create or update request shows exactly one error
\* notification, with the backend's message when the failure carries one and
\* the generic text otherwise, in both modals.
C11_FailureShowsBackendMessage ==
  Failed =>
    last.toasts = << <<"error", IF last.input # Undefined THEN last.input
                                ELSE GenericFailure>> >>

\* C12: the handling of a failed create or update request leaves every form
\* field as it was, invokes no caller callback, does not close the modal, and
\* leaves the form ready (nothing pending, nothing in flight), so the same
\* values can be submitted again.
C12_FailureKeepsFormOpenAndUnchanged ==
  [][ Failed' => /\ form' = form
                 /\ last'.callbacks = <<>>
                 /\ closed' = closed
                 /\ ~isPending' /\ ~submitting' /\ inflight' = 0 ]_vars

\* C12 witness: a failure handled in an open modal whose form still holds the
\* submitted name and client and is ready again.
C12_Witness ==
  /\ Failed /\ ~closed
  /\ form.name = "P" /\ form.clientId = "c1"
  /\ ~isPending /\ ~submitting /\ inflight = 0

\* The submit control is disabled: disabled={isPending} in the rhf modal,
\* disabled={submitting} in the tsx modal.
SubmitDisabled == IF variant = "rhf" THEN isPending ELSE submitting

\* C13: a form instance never has more than one create or update request in
\* flight, and its submit control is disabled exactly while one is.
C13_OneRequestInFlight ==
  /\ inflight \in {0, 1}
  /\ SubmitDisabled <=> inflight = 1

\* C13 witness: an update request is in flight in an open modal, whose submit
\* control is disabled.
C13_Witness ==
  /\ last.op = "submit" /\ ~closed
  /\ inflight = 1 /\ SubmitDisabled /\ mutation.update = "pending"

\* A create or update request has just succeeded.
Succeeded == last.op \in {"createSuccess", "updateSuccess"}

\* C14: once a submission has succeeded the modal is closed, in both modals
\* and whichever optional callbacks the caller supplied.
C14_SuccessClosesModal == Succeeded => closed

\* C15: a submission sends its request only once the loading of the
\* reference data has finished, never while one of the modal's fetches is
\* still pending.
C15_SubmitOnlyAfterLoading ==
  (last.op = "submit" /\ last.requests # <<>>) => AllSettled

\* The handling of a settled request ran in full: one notification of the
\* outcome, and on success the callback the caller is owed (onCreated with
\* the new id or onUpdated when supplied, onClose in the tsx modal).
HandlingRan ==
  /\ Len(last.toasts) = 1
  /\ last.toasts[1][1] = IF Succeeded THEN "success" ELSE "error"
  /\ Len(last.callbacks) =
       IF Failed THEN 0
       ELSE IF variant = "tsx" THEN 1
       ELSE IF last.op = "createSuccess" THEN (IF onCreated THEN 1 ELSE 0)
       ELSE (IF onUpdated THEN 1 ELSE 0)

\* C16: closing the modal while its request is in flight does not abort the
\* request (it stays in flight and pending), and when the request settles
\* after the close its success or failure handling still runs: the
\* notification is shown and the caller's callback is invoked.
C16_CloseDoesNotAbort ==
  [][ /\ last'.op = "close" =>
           /\ inflight' = inflight
           /\ mutation' = mutation
           /\ submitting' = submitting
      /\ (closed /\ inflight = 1) =>
           /\ SubmitDisabled
           /\ (inflight' = 0 => (Succeeded' \/ Failed') /\ HandlingRan') ]_vars

\* C16 witness: a request that was in flight when the modal was closed has
\* failed after the close, and its error notification was shown.
C16_Witness ==
  /\ closed /\ Failed /\ inflight = 0
  /\ last.toasts # <<>>

\* The link has been clicked.
Clicked == link.click.kind # "none"

\* C17: a click on a link whose disabled flag is true never navigates,
\* whatever the other props (a caller's onClick included); a click on a link
\* whose disabled flag is not true is never default-prevented by the
\* component.
C17_DisabledClickSuppressed ==
  Clicked =>
    IF TruthyB(link.props.disabled)
    THEN /\ ~link.click.navigated
         /\ link.click.delivered => link.click.event.defaultPrevented
    ELSE ~link.click.event.byComponent

\* C18: every request sent through the client carries the header
\* Authorization: Bearer <token> with the token localStorage held when that
\* request was sent, and carries no Authorization header when localStorage
\* held no token then (nothing stored, or the empty string).
C18_BearerTokenAtSendTime ==
  \A i \in 1..Len(wire) :
    wire[i].request.headers.Authorization =
      IF wire[i].stored \in Tokens THEN Some(<<"Bearer", wire[i].stored>>) ELSE None

\* C18 witness: a request sent with token t1 stored carried Bearer t1, the
\* token was then removed, and the next request carried no Authorization.
C18_Witness ==
  /\ Len(wire) = 2
  /\ wire[1].stored = "t1"
  /\ wire[1].request.headers.Authorization = Some(<<"Bearer", "t1">>)
  /\ wire[2].stored = Null
  /\ wire[2].request.headers.Authorization = None

\* C19: a submit of a name made of whitespace only is treated like a submit
\* of an empty name in both modals: it is turned down, so no request is sent.
C19_WhitespaceNameRejected ==
  (last.op = "submit" /\ form.name # "" /\ Trim(form.name) = "") =>
    last.requests = <<>>

\* The rhf modal is editing a record that has neither id nor _id.
MissingId ==
  /\ variant = "rhf" /\ isEditing /\ project # None
  /\ ~Truthy(project[1].id) /\ ~Truthy(project[1]._id)

\* C20: in edit mode on a record with neither id nor _id, a submit that
\* passes validation sends no request, shows the one error notification
\* 'Cannot update project: Missing project ID', invokes no callback and
\* leaves the modal open and not pending; such a modal never has a create
\* (or any other) request in flight.
C20_MissingIdSendsNothing ==
  MissingId =>
    /\ mutation.create = "idle" /\ mutation.update = "idle" /\ inflight = 0
    /\ (last.op = "submit" /\ last.invalid = {}) =>
         /\ last.requests = <<>>
         /\ last.toasts = << <<"error", "Cannot update project: Missing project ID">> >>
         /\ last.callbacks = <<>>
         /\ ~isPending /\ ~closed

\* C20 witness: the valid form of an id-less record was submitted and the
\* missing-id notification was shown.
C20_Witness ==
  /\ MissingId /\ last.op = "submit" /\ last.invalid = {}
  /\ form.name = "Old" /\ form.clientId = "c1"
  /\ last.toasts # <<>> /\ last.requests = <<>>

\* The identifiers of the clients in the list the modal holds.
FetchedClientIds ==
  {ItemId(refData["clients"][i]) : i \in 1..Len(refData["clients"])} \ {""}

\* C21: the client reference of every create request is the identifier of a
\* client of the fetched list; no placeholder or empty option value is sent,
\* the list being empty after a failed fetch included.
C21_CreateClientIsFetched ==
  \A r \in Sent : r.method = "POST" => r.data.clientId \in FetchedClientIds

\* The selection the form started from, and the one it holds now.
InitialSelection == project[1].teamMemberIds[1]
Selection == form.teamMemberIds

\* How many times the checkbox of the member with this id was clicked.
Toggles(id) == Cardinality({k \in 1..Len(picked) : picked[k][1] = id})

\* C22: from a duplicate-free selection over members with distinct ids, after
\* any sequence of checkbox clicks the selection holds no id twice; it holds
\* a member exactly when that member was clicked an odd number of times if
\* it started unselected, an even number if it started selected; checking
\* and then unchecking a member gives back the selection as it was; and a
\* member without an id is never added.
C22_TogglesKeepSelectionASet ==
  /\ \A i, j \in 1..Len(Selection) : i # j => Selection[i] # Selection[j]
  /\ \A id \in ListedIds :
       (id \in Range(Selection)) <=>
         ((id \in Range(InitialSelection)) # (Toggles(id) % 2 = 1))
  /\ \A i \in 1..Len(refData["teamMembers"]) :
       LET id == ItemId(refData["teamMembers"][i]) IN
       (Truthy(id) /\ id \notin Range(Selection)) =>
          clickMember(clickMember(Selection, i), i) = Selection
  /\ Range(Selection) \subseteq ListedIds

\* C22 witness: from the selection [B, A], the member without an id was
\* clicked, C was checked, A unchecked, and C unchecked again: B is left.
C22_Witness ==
  /\ InitialSelection = <<"B", "A">>
  /\ picked = << <<"", "toggle">>, <<"C", "toggle">>, <<"A", "toggle">>,
                 <<"C", "toggle">> >>
  /\ Selection = <<"B">>

====
